---- MODULE Spec2Model ----
(***************************************************************************)
(* Model of src/twitter_scraper.py: the usage ledger (usage.json), the     *)
(* paginated retriever (search_tweets), the merge-persist store            *)
(* (save_or_append_csv) and the driver main().                             *)
(*                                                                         *)
(* Five specifications share the variables:                                *)
(*   Spec        runs of main(), with the responses of the search          *)
(*               capability and interrupted file writes chosen by the      *)
(*               environment;                                              *)
(*   SpecSearch  sessions of search_tweets called with any arguments;      *)
(*   SpecStore   three successive save_or_append_csv calls R1, R2, R1;     *)
(*   SpecLedger  add_usage / remaining_quota calls across periods;         *)
(*   SpecQuery   one call of build_query.                                  *)
(***************************************************************************)
EXTENDS Integers, Sequences, FiniteSets, TLC

\* ------------------------------------------------------------- bounds
MaxItems == 2
MaxFetches == 2
MaxRuns == 2
MaxKey == 2
MaxBatch == 2
MaxBatch2 == 1
MaxAdds == 3

\* ------------------------------------------------------------- program constants
PAGE_CEILING == 100

\* identifiers and engagement counters of the tweets the model draws from
TweetIds == {1, 2}
LikeCounts == {1, 2}

\* values of X_MONTHLY_CAP, of the max_results / total_limit arguments and of
\* the count argument of add_usage that the model draws from
Caps == {2, 10}
MaxResultsArgs == {1, 2, 100, 500}
TotalLimits == {0, 1, 2}
Counts == {0, 3, 5}

Max(a, b) == IF a >= b THEN a ELSE b
Min(a, b) == IF a <= b THEN a ELSE b

\* ------------------------------------------------------------- records
\* created_at: 1.. a timestamp, 0 NaT (missing), -1 a value that does not parse
NaT == 0
Unparseable == -1

\* the tweets the search capability returns during run number run: created_at
\* follows the id, the engagement counter drifts from one run to the next
Tweets(run) == {[tweet_id |-> i, created_at |-> i, like_count |-> run] : i \in TweetIds}

\* rows a caller may hand to save_or_append_csv
Rows == [tweet_id : TweetIds, created_at : {Unparseable, 1, 2}, like_count : LikeCounts]

SeqsUpTo(S, n) == UNION {[1..k -> S] : k \in 0..n}

Ids(rows) == {rows[i].tweet_id : i \in 1..Len(rows)}

DistinctIds(rows) == \A i, j \in 1..Len(rows) : rows[i].tweet_id = rows[j].tweet_id => i = j

\* ------------------------------------------------------------- files
\* state: "absent", "ok", or "unreadable" (present, does not parse)
AbsentCsv == [state |-> "absent", rows |-> <<>>]
UnreadableCsv == [state |-> "unreadable", rows |-> <<>>]
CsvOf(rows) == [state |-> "ok", rows |-> rows]

UsageKeys == 1..MaxKey
NoEntry == [present |-> FALSE, retrieved |-> 0, cap |-> 0]
EmptyUsage == [k \in UsageKeys |-> NoEntry]
AbsentUsage == [state |-> "absent", data |-> EmptyUsage]
UnreadableUsage == [state |-> "unreadable", data |-> EmptyUsage]

VARIABLES
  now,           \* the calendar month of the wall clock (the value of _usage_key)
  usageFile,     \* usage.json
  csvFile,       \* copasa_tweets.csv
  pc,            \* "idle", "search", "save", "usage"
  caller,        \* "none", "main", "direct"
  monthly_cap,   \* main: X_MONTHLY_CAP
  max_results,   \* search_tweets: the argument as passed
  paginate,
  total_limit,
  counts_info,   \* "supported" / "unsupported"
  collected,
  pages,
  next_token,    \* 0 is None
  reason,        \* which break ended the loop (not stored by the code)
  requested,     \* page sizes requested from the search capability this session
  newly_added,   \* main: value returned by save_or_append_csv
  returned,      \* (meta_out, reason) of the direct sessions that returned
  runs,
  searchCalls,   \* calls of client.search_recent_tweets in this run
  countsCalls,   \* calls of client.get_recent_tweets_count in this run
  dataPages,     \* the fetches of the session that answered with at least one item
  outcome,       \* how the last run ended: "", "stopped", "returned", "raised", "interrupted"
  R1, R2,        \* SpecStore: the two batches
  step,          \* SpecStore: save_or_append_csv calls made
  ret,           \* SpecStore: value the last call returned, -1 when it raised
  afterSecond,   \* SpecStore: the file after the second call
  adds,          \* SpecLedger: add_usage calls made
  added,         \* SpecLedger: per key, the sum of the counts passed to add_usage
  lost,          \* SpecLedger: a write of the ledger was interrupted
  peak,          \* SpecLedger: per period, the largest retrieved count the file has held
  base, lang, exclude_retweets, exclude_replies,   \* SpecQuery: arguments of build_query
  query,         \* SpecQuery: the string build_query returned
  built          \* SpecQuery: build_query has returned

sessVars == <<pc, caller, monthly_cap, max_results, paginate, total_limit, counts_info,
              collected, pages, next_token, reason, requested, newly_added, returned,
              runs, searchCalls, countsCalls, outcome, dataPages>>
storeVars == <<R1, R2, step, ret, afterSecond>>
ledgerVars == <<adds, added, lost, peak>>
queryVars == <<base, lang, exclude_retweets, exclude_replies, query, built>>
vars == <<now, usageFile, csvFile, sessVars, storeVars, ledgerVars, queryVars>>

\* ------------------------------------------------------------- usage ledger
usage_key(clock) == clock

load_usage(f) == IF f.state = "ok" THEN f.data ELSE EmptyUsage

save_usage(usage) == [state |-> "ok", data |-> usage]

\* the file while save_usage is under way: open(p, "w") has truncated it and
\* json.dump has written only part of the document
TornUsage == UnreadableUsage

\* mutant: the count replaces the period's total instead of adding to it
add_usage_overwrite(f, key, count, cap) ==
  LET usage == load_usage(f)
      updated == [present |-> TRUE, retrieved |-> count, cap |-> cap]
  IN save_usage([usage EXCEPT ![key] = updated])

add_usage(f, key, count, cap) ==
  LET usage == load_usage(f)
      month_data == IF usage[key].present THEN usage[key]
                    ELSE [present |-> TRUE, retrieved |-> 0, cap |-> cap]
      updated == [present |-> TRUE, retrieved |-> month_data.retrieved + count, cap |-> cap]
  IN save_usage([usage EXCEPT ![key] = updated])

\* mutant: what the ledger holds is not subtracted
remaining_quota_ignores_usage(f, key, cap) == cap

remaining_quota(f, key, cap) ==
  LET usage == load_usage(f)
      used == IF usage[key].present THEN usage[key].retrieved ELSE 0
  IN Max(0, cap - used)

\* ------------------------------------------------------------- query builder
\* lang = None and lang = "" are both false at line 104
NoLang == ""

\* " ".join(parts), line 106
RECURSIVE join(_, _)
join(sep, parts) ==
  IF parts = <<>> THEN ""
  ELSE IF Len(parts) = 1 THEN parts[1]
  ELSE parts[1] \o sep \o join(sep, Tail(parts))

\* mutant: the language clause is appended before the two exclusions
build_query_lang_first(b, l, no_rt, no_reply) ==
  LET p0 == <<b>>
      p1 == IF l # NoLang THEN Append(p0, "lang:" \o l) ELSE p0
      p2 == IF no_rt THEN Append(p1, "-is:retweet") ELSE p1
      p3 == IF no_reply THEN Append(p2, "-is:reply") ELSE p2
  IN join(" ", p3)

\* lines 98-106
build_query(b, l, no_rt, no_reply) ==
  LET p0 == <<b>>
      p1 == IF no_rt THEN Append(p0, "-is:retweet") ELSE p0
      p2 == IF no_reply THEN Append(p1, "-is:reply") ELSE p1
      p3 == IF l # NoLang THEN Append(p2, "lang:" \o l) ELSE p2
  IN join(" ", p3)

\* ------------------------------------------------------------- store
\* mutant: nothing counts as an empty frame
df_empty_never(df) == FALSE

\* line 204: df.empty
df_empty(df) == df = <<>>

\* mutant: of the rows that share an identifier the last one is kept
RECURSIVE drop_duplicates_keep_last(_)
drop_duplicates_keep_last(rows) ==
  IF rows = <<>> THEN <<>>
  ELSE LET back == drop_duplicates_keep_last(Tail(rows))
       IN IF rows[1].tweet_id \in Ids(back) THEN back ELSE <<rows[1]>> \o back

\* line 210: drop_duplicates(subset=["tweet_id"]), the first occurrence is kept
RECURSIVE drop_duplicates(_)
drop_duplicates(rows) ==
  IF rows = <<>> THEN <<>>
  ELSE LET front == drop_duplicates(SubSeq(rows, 1, Len(rows) - 1))
           last == rows[Len(rows)]
       IN IF last.tweet_id \in Ids(front) THEN front ELSE Append(front, last)

\* pd.to_datetime(errors="coerce") on the created_at column
to_datetime(rows) ==
  [i \in 1..Len(rows) |->
     [rows[i] EXCEPT !.created_at = IF @ = Unparseable THEN NaT ELSE @]]

\* r goes before s in descending order of created_at, NaT last
Before(r, s) == r.created_at # NaT /\ (s.created_at = NaT \/ r.created_at > s.created_at)

RECURSIVE Insert(_, _)
Insert(r, sorted) ==
  IF sorted = <<>> THEN <<r>>
  ELSE IF Before(r, sorted[1]) THEN <<r>> \o sorted
  ELSE <<sorted[1]>> \o Insert(r, Tail(sorted))

RECURSIVE sort_values(_)
sort_values(rows) ==
  IF rows = <<>> THEN <<>>
  ELSE Insert(rows[Len(rows)], sort_values(SubSeq(rows, 1, Len(rows) - 1)))

\* lines 207-212: what is merged with the batch
merge(df, f) ==
  IF f.state # "absent" THEN drop_duplicates(f.rows \o df) ELSE df

\* lines 207-217: the table written to path (f is absent or readable)
merged_csv(df, f) == CsvOf(sort_values(to_datetime(merge(df, f))))

\* mutant: a file that does not parse is read as an empty table
read_csv_lenient(f) == FALSE

\* line 208: pd.read_csv raises on a file that does not parse
read_csv_raises(f) == f.state = "unreadable"

\* line 219
save_result(df, f) == Len(df)

\* the file while to_csv is under way: truncated by open, then n rows written
TornCsv(target, n) == IF n = 0 THEN UnreadableCsv ELSE CsvOf(SubSeq(target.rows, 1, n))

\* ------------------------------------------------------------- retriever
\* mutant: the argument is passed on as given
page_size_unclamped(arg) == arg

\* line 121
page_size(arg) == Min(arg, PAGE_CEILING)

\* mutant: the total-item cap is never looked at
break_reason_no_cap(pag, token, n, limit) ==
  IF ~pag THEN "done"
  ELSE IF token = 0 THEN "exhausted"
  ELSE ""

\* mutant: the loop stops only once more than limit records are collected
break_reason_above_cap(pag, token, n, limit) ==
  IF ~pag THEN "done"
  ELSE IF token = 0 THEN "exhausted"
  ELSE IF n > limit THEN "capped"
  ELSE ""

\* mutant: the loop goes on without regard to paginate
break_reason_always_paginates(pag, token, n, limit) ==
  IF token = 0 THEN "exhausted"
  ELSE IF n >= limit THEN "capped"
  ELSE ""

\* lines 180-187, after a page with data; "" means the loop goes on
break_reason(pag, token, n, limit) ==
  IF ~pag THEN "done"
  ELSE IF token = 0 THEN "exhausted"
  ELSE IF n >= limit THEN "capped"
  ELSE ""

\* lines 190-200
meta_of(pgs, coll, cinfo, pag, limit) ==
  [pages |-> pgs, collected |-> Len(coll), query |-> "COPASA", counts_endpoint |-> cinfo,
   pagination_used |-> pag, total_limit |-> limit, start_time |-> "start_7d",
   end_time |-> "now", since_id |-> "None"]

\* mutant: the records of the earlier pages are dropped when a fetch fails
after_error_discard(coll) == <<>>

\* lines 146-148, 189: the handler only leaves the loop; the frame is built from
\* what was collected before the failing fetch
after_error(coll) == coll

\* mutant: only a response with items counts as a page
pages_after_data_only(p, items) == IF items = <<>> THEN p ELSE p + 1

\* line 150: every response counts as a page, whatever it holds
pages_after(p, items) == p + 1

\* mutant: main stops only below zero
quota_reached_strict(remaining) == remaining < 0

\* lines 236-238
quota_reached(remaining) == remaining <= 0

\* pages the search capability may answer with during run number run
PageItems(size, run) ==
  {p \in SeqsUpTo(Tweets(run), Min(size, MaxItems)) : p # <<>> /\ DistinctIds(p)}

\* ------------------------------------------------------------- Init
InitFiles ==
  /\ now = 1
  /\ usageFile = AbsentUsage
  /\ csvFile = AbsentCsv

InitSession ==
  /\ pc = "idle"
  /\ caller = "none"
  /\ monthly_cap = 0
  /\ max_results = 0
  /\ paginate = FALSE
  /\ total_limit = 0
  /\ counts_info = "unsupported"
  /\ collected = <<>>
  /\ pages = 0
  /\ next_token = 0
  /\ reason = ""
  /\ requested = {}
  /\ newly_added = 0
  /\ returned = {}
  /\ runs = 0
  /\ searchCalls = 0
  /\ countsCalls = 0
  /\ outcome = ""
  /\ dataPages = 0

InitQuery ==
  /\ base = "COPASA"
  /\ lang = NoLang
  /\ exclude_retweets = FALSE
  /\ exclude_replies = FALSE
  /\ query = ""
  /\ built = FALSE

InitLedger ==
  /\ adds = 0
  /\ added = [k \in UsageKeys |-> 0]
  /\ lost = FALSE
  /\ peak = [k \in UsageKeys |-> 0]

Init ==
  /\ InitFiles
  /\ InitSession
  /\ InitLedger
  /\ InitQuery
  /\ R1 = <<>>
  /\ R2 = <<>>
  /\ step = 0
  /\ ret = 0
  /\ afterSecond = AbsentCsv

\* ------------------------------------------------------------- actions of Spec
\* the locals of a run that has ended are gone
locals == <<caller, monthly_cap, max_results, paginate, total_limit, counts_info,
            collected, pages, next_token, reason, requested, newly_added,
            searchCalls, countsCalls, dataPages>>

EndRun(how) ==
  /\ pc' = "idle"
  /\ outcome' = how
  /\ caller' = "none"
  /\ monthly_cap' = 0
  /\ max_results' = 0
  /\ paginate' = FALSE
  /\ total_limit' = 0
  /\ counts_info' = "unsupported"
  /\ collected' = <<>>
  /\ pages' = 0
  /\ next_token' = 0
  /\ reason' = ""
  /\ requested' = {}
  /\ newly_added' = 0
  /\ searchCalls' = 0
  /\ countsCalls' = 0
  /\ dataPages' = 0

\* lines 122-131: the locals of search_tweets and the counts request
BeginSearch(who, arg, pag, limit) ==
  /\ caller' = who
  /\ max_results' = arg
  /\ paginate' = pag
  /\ total_limit' = limit
  /\ collected' = <<>>
  /\ pages' = 0
  /\ next_token' = 0
  /\ reason' = ""
  /\ requested' = {}
  /\ newly_added' = 0
  /\ outcome' = ""
  /\ searchCalls' = 0
  /\ countsCalls' = 1
  /\ dataPages' = 0
  /\ \E c \in {"supported", "unsupported"} : counts_info' = c
  /\ runs' = runs + 1
  /\ pc' = "search"

\* main, lines 234-238: the cap is reached, main returns
MainStop ==
  /\ pc = "idle"
  /\ runs < MaxRuns
  /\ \E cap \in Caps :
       /\ quota_reached(remaining_quota(usageFile, usage_key(now), cap))
       /\ monthly_cap' = cap
  /\ runs' = runs + 1
  /\ outcome' = "stopped"
  /\ UNCHANGED <<now, usageFile, csvFile, pc, caller, max_results, paginate, total_limit,
                 counts_info, collected, pages, next_token, reason, requested, newly_added,
                 searchCalls, countsCalls, dataPages, returned, storeVars, ledgerVars,
                 queryVars>>

\* main, lines 234-253
MainStart ==
  /\ pc = "idle"
  /\ runs < MaxRuns
  /\ \E cap \in Caps :
       LET remaining == remaining_quota(usageFile, usage_key(now), cap) IN
       /\ ~quota_reached(remaining)
       /\ monthly_cap' = cap
       /\ BeginSearch("main", 100, TRUE, remaining)
  /\ UNCHANGED <<now, usageFile, csvFile, returned, storeVars, ledgerVars, queryVars>>

\* a caller other than main calls search_tweets
DirectStart ==
  /\ pc = "idle"
  /\ runs < MaxRuns
  /\ \E arg \in MaxResultsArgs, pag \in BOOLEAN, limit \in TotalLimits :
       BeginSearch("direct", arg, pag, limit)
  /\ UNCHANGED <<now, usageFile, csvFile, monthly_cap, returned, storeVars, ledgerVars, queryVars>>

\* lines 189-201: search_tweets returns (df, meta_out); main goes on to line 261
Return(pgs, coll, why) ==
  /\ reason' = why
  /\ IF caller = "main"
       THEN /\ pc' = "save"
            /\ UNCHANGED <<returned, outcome>>
       ELSE /\ pc' = "idle"
            /\ outcome' = "returned"
            /\ returned' = returned \cup
                 {[meta |-> meta_of(pgs, coll, counts_info, paginate, total_limit),
                   reason |-> why]}

\* lines 135-148: the request raises TweepyException
FetchError ==
  /\ pc = "search"
  /\ searchCalls' = searchCalls + 1
  /\ requested' = requested \cup {page_size(max_results)}
  /\ collected' = after_error(collected)
  /\ Return(pages, after_error(collected), "errored")
  /\ UNCHANGED <<now, usageFile, csvFile, caller, monthly_cap, max_results, paginate,
                 total_limit, counts_info, pages, next_token, newly_added,
                 runs, countsCalls, dataPages, storeVars, ledgerVars, queryVars>>

\* lines 150, 170-172: the response has no data
FetchEmpty ==
  /\ pc = "search"
  /\ searchCalls' = searchCalls + 1
  /\ requested' = requested \cup {page_size(max_results)}
  /\ pages' = pages_after(pages, <<>>)
  /\ Return(pages_after(pages, <<>>), collected, "exhausted")
  /\ UNCHANGED <<now, usageFile, csvFile, caller, monthly_cap, max_results, paginate,
                 total_limit, counts_info, collected, next_token, newly_added,
                 runs, countsCalls, dataPages, storeVars, ledgerVars, queryVars>>

\* lines 150-187: the response has data
FetchPage ==
  /\ pc = "search"
  /\ \E items \in PageItems(page_size(max_results), runs), token \in {0, pages + 1} :
       LET coll == collected \o items
           why == break_reason(paginate, token, Len(coll), total_limit)
       IN /\ why = "" => searchCalls + 1 < MaxFetches
          /\ collected' = coll
          /\ pages' = pages_after(pages, items)
          /\ next_token' = token
          /\ IF why = ""
               THEN UNCHANGED <<pc, reason, returned, outcome>>
               ELSE Return(pages_after(pages, items), coll, why)
  /\ dataPages' = dataPages + 1
  /\ searchCalls' = searchCalls + 1
  /\ requested' = requested \cup {page_size(max_results)}
  /\ UNCHANGED <<now, usageFile, csvFile, caller, monthly_cap, max_results, paginate,
                 total_limit, counts_info, newly_added, runs, countsCalls,
                 storeVars, ledgerVars, queryVars>>

\* main line 261, save_or_append_csv lines 204-206: nothing to save
SaveEmpty ==
  /\ pc = "save"
  /\ df_empty(collected)
  /\ newly_added' = 0
  /\ pc' = "usage"
  /\ UNCHANGED <<now, usageFile, csvFile, caller, monthly_cap, max_results, paginate,
                 total_limit, counts_info, collected, pages, next_token, reason, requested,
                 returned, runs, searchCalls, countsCalls, outcome, dataPages,
                 storeVars, ledgerVars, queryVars>>

\* lines 207-219: merge and write
SaveMerge ==
  /\ pc = "save"
  /\ ~df_empty(collected)
  /\ ~read_csv_raises(csvFile)
  /\ csvFile' = merged_csv(collected, csvFile)
  /\ newly_added' = save_result(collected, csvFile)
  /\ pc' = "usage"
  /\ UNCHANGED <<now, usageFile, caller, monthly_cap, max_results, paginate,
                 total_limit, counts_info, collected, pages, next_token, reason, requested,
                 returned, runs, searchCalls, countsCalls, outcome, dataPages,
                 storeVars, ledgerVars, queryVars>>

\* line 208: read_csv raises, the exception ends main
SaveRaise ==
  /\ pc = "save"
  /\ ~df_empty(collected)
  /\ read_csv_raises(csvFile)
  /\ EndRun("raised")
  /\ UNCHANGED <<now, usageFile, csvFile, returned, runs, storeVars, ledgerVars, queryVars>>

\* line 217: to_csv is interrupted (I/O error, process killed) after n rows
SaveInterrupted ==
  /\ pc = "save"
  /\ ~df_empty(collected)
  /\ ~read_csv_raises(csvFile)
  /\ LET target == merged_csv(collected, csvFile)
     IN \E n \in 0..(Len(target.rows) - 1) : csvFile' = TornCsv(target, n)
  /\ EndRun("interrupted")
  /\ UNCHANGED <<now, usageFile, returned, runs, storeVars, ledgerVars, queryVars>>

\* main line 262
AddUsage ==
  /\ pc = "usage"
  /\ usageFile' = add_usage(usageFile, usage_key(now), newly_added, monthly_cap)
  /\ EndRun("returned")
  /\ UNCHANGED <<now, csvFile, returned, runs, storeVars, ledgerVars, queryVars>>

\* lines 79-80: json.dump is interrupted after open(p, "w") truncated the file
AddUsageInterrupted ==
  /\ pc = "usage"
  /\ usageFile' = TornUsage
  /\ EndRun("interrupted")
  /\ UNCHANGED <<now, csvFile, returned, runs, storeVars, ledgerVars, queryVars>>

\* the wall clock passes into the next calendar month
NextMonth ==
  /\ now < MaxKey
  /\ now' = now + 1
  /\ UNCHANGED <<usageFile, csvFile, sessVars, storeVars, ledgerVars, queryVars>>

Next ==
  \/ MainStop
  \/ MainStart
  \/ FetchError
  \/ FetchEmpty
  \/ FetchPage
  \/ SaveEmpty
  \/ SaveMerge
  \/ SaveRaise
  \/ SaveInterrupted
  \/ AddUsage
  \/ AddUsageInterrupted
  \/ NextMonth

Spec == Init /\ [][Next]_vars

\* sessions of search_tweets called directly
NextSearch ==
  \/ DirectStart
  \/ FetchError
  \/ FetchEmpty
  \/ FetchPage

SpecSearch == Init /\ [][NextSearch]_vars

\* ------------------------------------------------------------- SpecStore
InitStore ==
  /\ now = 1
  /\ usageFile = AbsentUsage
  /\ csvFile \in {AbsentCsv, UnreadableCsv}
  /\ InitSession
  /\ InitLedger
  /\ InitQuery
  /\ R1 \in SeqsUpTo(Rows, MaxBatch)
  /\ R2 \in SeqsUpTo(Rows, MaxBatch2)
  /\ step = 0
  /\ ret = 0
  /\ afterSecond = AbsentCsv

\* save_or_append_csv(df, path), lines 203-219
StoreCall(df) ==
  /\ csvFile' = IF df_empty(df) \/ read_csv_raises(csvFile) THEN csvFile
                ELSE merged_csv(df, csvFile)
  /\ ret' = IF df_empty(df) THEN 0
            ELSE IF read_csv_raises(csvFile) THEN -1
            ELSE save_result(df, csvFile)
  /\ step' = step + 1

Store1 ==
  /\ step = 0
  /\ StoreCall(R1)
  /\ UNCHANGED <<now, usageFile, sessVars, ledgerVars, queryVars, R1, R2, afterSecond>>

Store2 ==
  /\ step = 1
  /\ StoreCall(R2)
  /\ afterSecond' = csvFile'
  /\ UNCHANGED <<now, usageFile, sessVars, ledgerVars, queryVars, R1, R2>>

Store3 ==
  /\ step = 2
  /\ StoreCall(R1)
  /\ UNCHANGED <<now, usageFile, sessVars, ledgerVars, queryVars, R1, R2, afterSecond>>

NextStore ==
  \/ Store1
  \/ Store2
  \/ Store3

SpecStore == InitStore /\ [][NextStore]_vars

\* ------------------------------------------------------------- SpecLedger
\* add_usage(count, monthly_cap), lines 82-89
LedgerAdd ==
  /\ adds < MaxAdds
  /\ \E count \in Counts, cap \in Caps :
       /\ usageFile' = add_usage(usageFile, usage_key(now), count, cap)
       /\ added' = [added EXCEPT ![usage_key(now)] = @ + count]
  /\ peak' = [k \in UsageKeys |-> Max(peak[k], usageFile'.data[k].retrieved)]
  /\ adds' = adds + 1
  /\ UNCHANGED <<now, csvFile, sessVars, storeVars, queryVars, lost>>

\* add_usage whose save_usage is interrupted, lines 79-80
LedgerAddInterrupted ==
  /\ adds < MaxAdds
  /\ usageFile' = TornUsage
  /\ lost' = TRUE
  /\ adds' = adds + 1
  /\ UNCHANGED <<now, csvFile, sessVars, storeVars, queryVars, added, peak>>

NextLedger ==
  \/ LedgerAdd
  \/ LedgerAddInterrupted
  \/ NextMonth

SpecLedger == Init /\ [][NextLedger]_vars

\* ------------------------------------------------------------- SpecQuery
\* base terms and language codes the model draws from
Bases == {"COPASA", "COPASA ALMG", "PEC", ""}
Langs == {NoLang, "pt", "en", "es"}

InitBuild ==
  /\ InitFiles
  /\ InitSession
  /\ InitLedger
  /\ R1 = <<>>
  /\ R2 = <<>>
  /\ step = 0
  /\ ret = 0
  /\ afterSecond = AbsentCsv
  /\ base \in Bases
  /\ lang \in Langs
  /\ exclude_retweets \in BOOLEAN
  /\ exclude_replies \in BOOLEAN
  /\ query = ""
  /\ built = FALSE

\* build_query(base, lang, exclude_retweets, exclude_replies), lines 98-106
BuildQuery ==
  /\ ~built
  /\ query' = build_query(base, lang, exclude_retweets, exclude_replies)
  /\ built' = TRUE
  /\ UNCHANGED <<now, usageFile, csvFile, sessVars, storeVars, ledgerVars,
                 base, lang, exclude_retweets, exclude_replies>>

NextQuery == BuildQuery

SpecQuery == InitBuild /\ [][NextQuery]_vars

\* ------------------------------------------------------------- claims
RowSet(f) == {f.rows[i] : i \in 1..Len(f.rows)}

\* the records of df whose identifier is not in the file f
NewlyContributed(df, f) == Cardinality({i \in 1..Len(df) : df[i].tweet_id \notin Ids(f.rows)})

\* C1: the value save_or_append_csv returns to main (and main adds to the ledger) is
\* the number of records of the batch whose identifier was not persisted before
C1_ReturnsNewlyPersisted ==
  [][(pc = "save" /\ pc' = "usage") => newly_added' = NewlyContributed(collected, csvFile)]_vars

\* C2: no persisted RecordSet holds two records with the same identifier
C2_NoDuplicateIds == csvFile.state = "ok" => DistinctIds(csvFile.rows)

\* C3: once the first fetch of a run of main has failed, save_or_append_csv is not
\* called and the ledger file is not written
C3_FailureLeavesLedger ==
  [][(caller = "main" /\ reason = "errored" /\ pages = 0)
       => (usageFile' = usageFile /\ ~(pc = "save" /\ pc' # "save"))]_vars

\* C4: after save(R1), save(R2), save(R1) the file holds the same set of records as
\* after the second call
C4_RoundTrip ==
  step = 3 => (csvFile.state = afterSecond.state /\ RowSet(csvFile) = RowSet(afterSecond))

\* C5: while no write of the ledger was interrupted, remaining_quota(cap) is
\* max(0, cap - the sum of the counts passed to add_usage in the current period),
\* whatever was recorded in other periods
C5_RemainingQuota ==
  ~lost => \A cap \in Caps :
             remaining_quota(usageFile, usage_key(now), cap)
               = Max(0, cap - added[usage_key(now)])

\* 5 then 3 were added in period 1 (2 remain of 10 there); period 2 has all 10
C5_Witness ==
  /\ ~lost
  /\ now = 2
  /\ added[1] = 8
  /\ added[2] = 0
  /\ remaining_quota(usageFile, 1, 10) = 2
  /\ remaining_quota(usageFile, usage_key(now), 10) = 10

\* C6: a run of main that starts with no remaining quota ends at once: no call of the
\* search or the counts endpoint, neither file written
C6_QuotaExhaustedAborts ==
  [][(runs' = runs + 1 /\ remaining_quota(usageFile, usage_key(now), monthly_cap') = 0)
       => /\ pc' = "idle"
          /\ outcome' = "stopped"
          /\ searchCalls' = 0
          /\ countsCalls' = 0
          /\ usageFile' = usageFile
          /\ csvFile' = csvFile]_vars

C6_Witness ==
  /\ pc = "idle"
  /\ outcome = "stopped"
  /\ usageFile.state = "ok"
  /\ usageFile.data[usage_key(now)].retrieved >= monthly_cap
  /\ csvFile.state = "ok"

\* C7: sessions that ended for different reasons returned different metadata
C7_ReasonInMetadata ==
  \A a, b \in returned : a.meta = b.meta => a.reason = b.reason

\* C8: a step changes the ledger file only to the complete new ledger and the
\* RecordSet file only to the complete merged table
C8_AtomicWrites ==
  [][/\ usageFile' # usageFile
          => usageFile' = add_usage(usageFile, usage_key(now), newly_added, monthly_cap)
     /\ csvFile' # csvFile => csvFile' = merged_csv(collected, csvFile)]_vars

\* C9: every request of a session asks for at most 100 items, for 100 when 500 were
\* asked for, and for the same number on every page
C9_PageSizeCeiling ==
  /\ \A size \in requested : size <= 100 /\ size <= max_results
  /\ Cardinality(requested) <= 1
  /\ max_results = 500 => requested \subseteq {100}

C9_Witness ==
  /\ max_results = 500
  /\ pages = 2
  /\ searchCalls = 2
  /\ requested = {100}

\* C10: save_or_append_csv of a non-empty batch on an unreadable file raises and
\* leaves both files as they were; a ledger file that is absent or unreadable is
\* read as the empty ledger, so main goes on with the whole cap and add_usage
\* writes a ledger holding only the current period
C10_UnreadableFiles ==
  [][/\ (pc = "save" /\ pc' # "save" /\ collected # <<>> /\ csvFile.state = "unreadable")
          => /\ outcome' = "raised"
             /\ pc' = "idle"
             /\ csvFile' = csvFile
             /\ usageFile' = usageFile
     /\ (runs' = runs + 1 /\ usageFile.state # "ok")
          => /\ pc' = "search"
             /\ total_limit' = monthly_cap'
     /\ (pc = "usage" /\ outcome' = "returned" /\ usageFile.state # "ok")
          => /\ usageFile'.state = "ok"
             /\ usageFile'.data =
                  [EmptyUsage EXCEPT ![usage_key(now)] =
                     [present |-> TRUE, retrieved |-> newly_added, cap |-> monthly_cap]]]_vars

\* the second run started on an absent ledger and its save raised on the file the
\* interrupted write of the first run left
C10_Witness ==
  /\ runs = 2
  /\ pc = "idle"
  /\ outcome = "raised"
  /\ csvFile.state = "unreadable"
  /\ usageFile.state = "absent"

\* the batch the next save_or_append_csv call of SpecStore is given
CallBatch == IF step = 1 THEN R2 ELSE R1

\* C11: a save on an existing file keeps every persisted identifier, and every row
\* it writes under an identifier persisted before is a row that was persisted
\* before, all fields alike: the new record of that identifier is the one dropped
C11_ExistingWins ==
  [][(step' = step + 1 /\ csvFile.state = "ok")
       => /\ csvFile'.state = "ok"
          /\ Ids(csvFile.rows) \subseteq Ids(csvFile'.rows)
          /\ \A i \in 1..Len(csvFile'.rows) :
               csvFile'.rows[i].tweet_id \in Ids(csvFile.rows)
                 => csvFile'.rows[i] \in RowSet(csvFile)]_vars

\* the second batch brought the persisted identifier with another like_count
C11_Witness ==
  /\ step = 2
  /\ Len(R1) = 1
  /\ Len(R2) = 1
  /\ R2[1].tweet_id = R1[1].tweet_id
  /\ R2[1].like_count # R1[1].like_count
  /\ csvFile.state = "ok"
  /\ Len(csvFile.rows) = 1
  /\ csvFile.rows[1].like_count = R1[1].like_count

\* C12: save_or_append_csv of an empty batch returns 0 and leaves the file as it
\* is, be it absent, readable or unreadable
C12_EmptyBatchNoOp ==
  [][(step' = step + 1 /\ CallBatch = <<>>) => (ret' = 0 /\ csvFile' = csvFile)]_vars

\* the empty second batch met the file the first call wrote
C12_Witness ==
  /\ step = 2
  /\ R1 # <<>>
  /\ R2 = <<>>
  /\ ret = 0
  /\ csvFile.state = "ok"
  /\ csvFile = afterSecond

\* C13: build_query returns the base term, then " -is:retweet" if retweets are
\* excluded, then " -is:reply" if replies are, then " lang:X" if a language is
\* given, for every combination of the three filters
C13_BuildQuery ==
  built =>
    /\ query = base \o (IF exclude_retweets THEN " -is:retweet" ELSE "")
                    \o (IF exclude_replies THEN " -is:reply" ELSE "")
                    \o (IF lang # NoLang THEN " lang:" \o lang ELSE "")
    /\ (base = "COPASA" /\ ~exclude_retweets /\ ~exclude_replies /\ lang = NoLang)
         => query = "COPASA"
    /\ (base = "COPASA" /\ exclude_retweets /\ exclude_replies /\ lang = "pt")
         => query = "COPASA -is:retweet -is:reply lang:pt"

C13_Witness ==
  /\ built
  /\ base = "COPASA"
  /\ exclude_retweets
  /\ exclude_replies
  /\ lang = "pt"
  /\ query = "COPASA -is:retweet -is:reply lang:pt"

\* C14: whenever the ledger file is readable, the retrieved count it holds for a
\* period is at least every count it held for that period before, also after the
\* file was found unreadable and loaded as empty
C14_RetrievedMonotone ==
  usageFile.state = "ok" =>
    \A k \in UsageKeys : usageFile.data[k].retrieved >= peak[k]

\* C15: a fetch that fails after at least one successful page ends the session
\* normally with every record collected so far; the failing fetch is the last one
\* of the session (no retry, no further fetch)
C15_ErrorReturnsPartial ==
  [][/\ (pc = "search" /\ pages >= 1 /\ reason' = "errored")
          => /\ collected' = collected
             /\ pages' = pages
             /\ searchCalls' = searchCalls + 1
             /\ pc' = "idle"
             /\ outcome' = "returned"
             /\ [meta |-> meta_of(pages, collected, counts_info, paginate, total_limit),
                 reason |-> "errored"] \in returned'
     /\ (reason = "errored" /\ searchCalls' # searchCalls)
          => (runs' = runs + 1 /\ searchCalls' = 0)]_vars

C15_Witness ==
  /\ reason = "errored"
  /\ pc = "idle"
  /\ outcome = "returned"
  /\ pages = 1
  /\ searchCalls = 2
  /\ Len(collected) = 1
  /\ \E r \in returned : r.reason = "errored" /\ r.meta.collected = 1 /\ r.meta.pages = 1

\* C16: a session without pagination is either before its first fetch or over
\* after exactly one fetch, whatever that fetch answered
C16_SinglePage ==
  (caller = "direct" /\ ~paginate) =>
    \/ pc = "search" /\ searchCalls = 0
    \/ pc = "idle" /\ searchCalls = 1 /\ reason \in {"done", "exhausted", "errored"}

\* the one page came with a continuation token and fewer records than total_limit
C16_Witness ==
  /\ caller = "direct"
  /\ ~paginate
  /\ pc = "idle"
  /\ reason = "done"
  /\ searchCalls = 1
  /\ next_token # 0
  /\ Len(collected) = 1
  /\ total_limit = 2

\* C17 as stated: pages counts the fetches that answered with at least one item
C17_PagesCountDataFetches == pages = dataPages

\* C17 amended: pages counts the fetches that were answered, a zero-item answer
\* included; only a failing fetch is left out. The metadata returned carries it.
C17_PagesCountResponses ==
  /\ pages = searchCalls - (IF reason = "errored" THEN 1 ELSE 0)
  /\ dataPages <= pages
  /\ pages <= dataPages + 1
  /\ (pc = "idle" /\ outcome = "returned")
       => \E r \in returned : r.reason = reason /\ r.meta.pages = pages

\* a page of one item, then a zero-item answer: two pages, one of them with data
C17_Witness ==
  /\ pc = "idle"
  /\ reason = "exhausted"
  /\ searchCalls = 2
  /\ pages = 2
  /\ dataPages = 1
  /\ \E r \in returned : r.reason = "exhausted" /\ r.meta.pages = 2 /\ r.meta.collected = 1

\* C18: a paginated session with total_limit >= 1 issues at most total_limit
\* fetches: while its loop is running every fetch made so far has added a record
\* and fewer than total_limit records are collected
C18_FetchesBounded ==
  (caller = "direct" /\ paginate /\ total_limit >= 1) =>
    /\ searchCalls <= total_limit
    /\ pc = "search" => (searchCalls <= Len(collected) /\ Len(collected) < total_limit)
    /\ pc = "search" \/ (pc = "idle" /\ reason \in {"exhausted", "capped", "errored"})

\* the second of two fetches reached the cap while a further page was on offer
C18_Witness ==
  /\ caller = "direct"
  /\ paginate
  /\ total_limit = 2
  /\ searchCalls = 2
  /\ reason = "capped"
  /\ next_token # 0
  /\ pc = "idle"

\* C19: a paginated session with total_limit >= 1 collects at most
\* total_limit - 1 + page size records, the responses holding at most a page each
C19_OvershootBounded ==
  (paginate /\ total_limit >= 1) =>
    Len(collected) <= total_limit - 1 + page_size(max_results)

\* total_limit 2, page size 2: one record, then two more
C19_Witness ==
  /\ caller = "direct"
  /\ paginate
  /\ total_limit = 2
  /\ page_size(max_results) = 2
  /\ reason = "capped"
  /\ Len(collected) = 3
  /\ Len(collected) > total_limit

\* C20: a run of main searches only with 1 <= total_limit = cap - retrieved, page
\* size 100 and pagination, so the retrieved count the ledger holds for a period
\* is at most the cap written with it plus one page less one record (cap + 99)
C20_LedgerOvershootBounded ==
  /\ (caller = "main" /\ pc = "search")
       => /\ paginate
          /\ page_size(max_results) = PAGE_CEILING
          /\ total_limit >= 1
          /\ \E k \in UsageKeys :
               /\ k <= usage_key(now)
               /\ load_usage(usageFile)[k].retrieved < monthly_cap
               /\ total_limit = monthly_cap - load_usage(usageFile)[k].retrieved
  /\ usageFile.state = "ok"
       => \A k \in UsageKeys :
            usageFile.data[k].present
              => /\ usageFile.data[k].retrieved
                      <= usageFile.data[k].cap + Min(PAGE_CEILING, MaxItems) - 1
                 /\ usageFile.data[k].retrieved <= usageFile.data[k].cap + PAGE_CEILING - 1

\* cap 2 in both runs: 1 record, then a page of 2 with total_limit 1
C20_Witness ==
  /\ runs = 2
  /\ pc = "idle"
  /\ outcome = "returned"
  /\ now = 1
  /\ usageFile.state = "ok"
  /\ usageFile.data[1] = [present |-> TRUE, retrieved |-> 3, cap |-> 2]

====
